---- MODULE Spec2Model ----
(***************************************************************************)
(* Model of RazorpayPaymentProviderService                                 *)
(* (src/src/modules/razorpay-payment/service.ts): the payment lifecycle    *)
(* handlers run against a gateway order store, and the webhook handler     *)
(* with its HMAC-SHA256 signature check.                                   *)
(*                                                                         *)
(* JavaScript values that may be undefined are sequences of length 0       *)
(* (undefined) or 1 (the value).  Objects are functions from field names   *)
(* to values.  Strings that are hashed are sequences of bytes.             *)
(***************************************************************************)
EXTENDS Integers, Sequences, FiniteSets, TLC

\* ---------------------------------------------------------------- bounds
NumSecrets == 2
NumBodies == 2
MaxAmount == 1
MaxClock == 5
MaxOrders == 2

\* ------------------------------------------------------- JavaScript values
Undefined == <<>>
Some(x) == <<x>>
IsDefined(m) == m # <<>>

\* truthiness of an optional string (undefined and "" are falsy)
TruthyStr(m) == IsDefined(m) /\ Len(m[1]) > 0
\* truthiness of an optional number (undefined and 0 are falsy)
TruthyNum(m) == IsDefined(m) /\ m[1] # 0

\* obj.k of an object, undefined when the field is absent
Get(obj, k) == IF k \in DOMAIN obj THEN Some(obj[k]) ELSE Undefined
\* m?.k of an optional object
OptGet(m, k) == IF IsDefined(m) THEN Get(m[1], k) ELSE Undefined
\* { ...m, ...upd } : spreading undefined contributes nothing
Spread(m, upd) == IF IsDefined(m) THEN upd @@ m[1] ELSE upd

RECURSIVE SumBytes(_)
SumBytes(s) == IF s = <<>> THEN 0 ELSE Head(s) + SumBytes(Tail(s))

HexDigits == <<"0","1","2","3","4","5","6","7","8","9","a","b","c","d","e","f">>
\* digest("hex") of a one-byte digest
HexEncode(n) == HexDigits[(n \div 16) + 1] \o HexDigits[(n % 16) + 1]
\* crypto.createHmac("sha256", key).update(body).digest("hex"), as a keyed
\* hash of the key bytes and the body bytes
HmacSha256Hex(key, body) ==
  HexEncode((SumBytes(key) * 31 + SumBytes(body) * 7 + Len(body) + 11) % 256)

\* --------------------------------------------------------- webhook inputs
EmptyString == <<>>
Secrets == { <<k>> : k \in 1..NumSecrets }
BodyTexts == { <<64 + b>> : b \in 1..NumBodies }
\* options.webhook_secret: process.env.RAZORPAY_WEBHOOK_SECRET (optional)
SecretOptions == {Undefined, Some(EmptyString)} \cup { Some(s) : s \in Secrets }

\* rawData: string | Buffer, the request body as UTF-8 text
RawDatas ==
  {Undefined}
    \cup { Some([kind |-> "string", text |-> t]) : t \in BodyTexts }
    \cup { Some([kind |-> "buffer", bytes |-> t]) : t \in BodyTexts }

\* header values a sender may put: digests under any key (the empty key
\* included) and a value that is no digest
Signatures ==
  { HmacSha256Hex(s, t) : s \in Secrets \cup {EmptyString}, t \in BodyTexts } \cup {"zz"}
SignatureHeader == "x-razorpay-signature"
EmptyObject == <<>>
HeaderSets ==
  {Undefined, Some(EmptyObject)}
    \cup { Some(SignatureHeader :> sig) : sig \in Signatures }

Events == {"payment.authorized", "payment.captured", "payment.failed", "order.paid"}
WebhookAmounts == {0} \cup { 100 * a : a \in 1..MaxAmount }
PaymentEntities ==
  { a @@ o : a \in {EmptyObject} \cup { [amount |-> n] : n \in WebhookAmounts },
             o \in {EmptyObject, [order_id |-> "order_1"]} }
OrderEntities == {EmptyObject} \cup { [receipt |-> r] : r \in {"", "order_7"} }
WebhookPayloads ==
  {EmptyObject}
    \cup { p @@ o :
             p \in {EmptyObject} \cup { [payment |-> [entity |-> e]] : e \in PaymentEntities },
             o \in {EmptyObject} \cup { [order |-> [entity |-> e]] : e \in OrderEntities } }
WebhookDatas ==
  {Undefined}
    \cup { Some(ev @@ pl) :
             ev \in {EmptyObject} \cup { [event |-> e] : e \in Events },
             pl \in {EmptyObject} \cup { [payload |-> p] : p \in WebhookPayloads } }
\* ProviderWebhookPayload["payload"]: { data, rawData, headers }
Payloads ==
  { [data |-> d, rawData |-> r, headers |-> h] :
      d \in WebhookDatas, r \in RawDatas, h \in HeaderSets }

\* ------------------------------------------------ getWebhookActionAndData
\* new BigNumber(n)
BigNumber(n) == [numeric |-> n]

\* typeof rawData === "string" ? rawData : rawData.toString()
BodyOf(raw) == IF raw.kind = "string" THEN raw.text ELSE raw.bytes

\* variant: the comparison is skipped when the signature header is absent
VerifySignature_SkipsAbsentHeader(opts, rawData, headers) ==
  IF ~TruthyStr(opts.webhook_secret) THEN "none"
  ELSE IF ~IsDefined(headers) THEN "TypeError"
  ELSE IF ~IsDefined(rawData) THEN "TypeError"
  ELSE IF /\ IsDefined(Get(headers[1], SignatureHeader))
          /\ Get(headers[1], SignatureHeader)
               # Some(HmacSha256Hex(opts.webhook_secret[1], BodyOf(rawData[1])))
       THEN "Error"
  ELSE "none"

\* variant: the block runs whether or not a secret is configured
VerifySignature_Unconditional(opts, rawData, headers) ==
  LET key == IF IsDefined(opts.webhook_secret) THEN opts.webhook_secret[1] ELSE EmptyString
  IN  IF ~IsDefined(headers) THEN "TypeError"
      ELSE IF ~IsDefined(rawData) THEN "TypeError"
      ELSE IF Get(headers[1], SignatureHeader) # Some(HmacSha256Hex(key, BodyOf(rawData[1])))
           THEN "Error"
      ELSE "none"

\* The signature block: the exception it raises, or "none".
VerifySignature(opts, rawData, headers) ==
  IF ~TruthyStr(opts.webhook_secret) THEN "none"
  ELSE IF ~IsDefined(headers) THEN "TypeError"
  ELSE IF ~IsDefined(rawData) THEN "TypeError"
  ELSE IF Get(headers[1], SignatureHeader)
            # Some(HmacSha256Hex(opts.webhook_secret[1], BodyOf(rawData[1])))
       THEN "Error"
  ELSE "none"

\* data.payload?.payment?.entity
PaymentEntityOf(data) == OptGet(OptGet(Get(data, "payload"), "payment"), "entity")
\* data.payload?.order?.entity
OrderEntityOf(data) == OptGet(OptGet(Get(data, "payload"), "order"), "entity")

\* orderEntity?.receipt || paymentEntity?.order_id
SessionIdOf(orderEntity, paymentEntity) ==
  LET receipt == OptGet(orderEntity, "receipt")
  IN  IF TruthyStr(receipt) THEN receipt ELSE OptGet(paymentEntity, "order_id")

\* variant: the amount is converted back to the major currency unit
AmountOf_MajorUnit(paymentEntity) ==
  LET amount == OptGet(paymentEntity, "amount")
  IN  BigNumber(IF TruthyNum(amount) THEN amount[1] \div 100 ELSE 0)

\* new BigNumber(paymentEntity?.amount || 0)
AmountOf(paymentEntity) ==
  LET amount == OptGet(paymentEntity, "amount")
  IN  BigNumber(IF TruthyNum(amount) THEN amount[1] ELSE 0)

EntityResult(action, data) ==
  [action |-> action,
   data |-> [session_id |-> SessionIdOf(OrderEntityOf(data), PaymentEntityOf(data)),
             amount |-> AmountOf(PaymentEntityOf(data))]]
EmptyResult(action) ==
  [action |-> action, data |-> [session_id |-> Some(""), amount |-> BigNumber(0)]]

\* variant: the "payment.captured" case is missing
MapEvent_NoCapturedCase(data) ==
  LET event == Get(data, "event")
  IN  IF event = Some("payment.authorized") THEN EntityResult("authorized", data)
      ELSE IF event = Some("payment.failed") THEN EntityResult("failed", data)
      ELSE EmptyResult("not_supported")

\* switch (event) { ... }
MapEvent(data) ==
  LET event == Get(data, "event")
  IN  IF event = Some("payment.authorized") THEN EntityResult("authorized", data)
      ELSE IF event = Some("payment.captured") THEN EntityResult("captured", data)
      ELSE IF event = Some("payment.failed") THEN EntityResult("failed", data)
      ELSE EmptyResult("not_supported")

\* no value: the block was left by an exception
NoResult == [action |-> "", data |-> [session_id |-> Undefined, amount |-> BigNumber(0)]]

\* The body of the try block: the exception raised in it ("none" when it
\* returns) and the value it returns.
WebhookTry(opts, payload) ==
  LET verify == VerifySignature(opts, payload.rawData, payload.headers)
  IN  IF verify # "none" THEN [raised |-> verify, result |-> NoResult]
      ELSE IF ~IsDefined(payload.data)
           THEN [raised |-> "TypeError", result |-> NoResult]
      ELSE [raised |-> "none", result |-> MapEvent(payload.data[1])]

\* variant: only the signature error is handled, anything else propagates
WebhookCatch_OnlySignatureError(attempt) ==
  [outcome |-> IF attempt.raised = "TypeError" THEN "throw" ELSE "return",
   raised |-> attempt.raised,
   result |-> IF attempt.raised = "Error" THEN EmptyResult("failed") ELSE attempt.result]

\* try { ... } catch (error) { return failed }
WebhookCatch(attempt) ==
  [outcome |-> "return",
   raised |-> attempt.raised,
   result |-> IF attempt.raised # "none" THEN EmptyResult("failed") ELSE attempt.result]

getWebhookActionAndData(opts, payload) == WebhookCatch(WebhookTry(opts, payload))

\* ------------------------------------------------------------- the gateway
\* Razorpay order statuses, and one the adapter has no case for
OrderStatuses == {"created", "attempted", "paid", "expired"}
GatewayOrderId(n) == "order_G" \o ToString(n)
\* new Date().toISOString()
ToISOString(t) == "T" \o ToString(t) \o "Z"
\* currency_code.toUpperCase()
ToUpperCase(c) == IF c = "inr" THEN "INR" ELSE IF c = "usd" THEN "USD" ELSE c

\* the order the gateway stores for razorpay_.orders.create(options)
CreatedOrder(n, options, t) ==
  [id |-> GatewayOrderId(n), amount |-> options.amount, currency |-> options.currency,
   receipt |-> options.receipt, status |-> "created", created_at |-> t]

\* razorpay_.orders.fetch(id): the order, or undefined when the call rejects
\* (unknown id, or the gateway is unreachable)
FetchOrder(store, id, reachable) ==
  LET found == { i \in 1..Len(store) : Some(store[i].id) = id }
  IN  IF reachable /\ found # {} THEN Some(store[CHOOSE i \in found : TRUE])
      ELSE Undefined

\* ------------------------------------------------------ lifecycle handlers
Return(status, data, reqs) ==
  [outcome |-> "return", status |-> status, data |-> data, error |-> "", requests |-> reqs]
Throw(type, reqs) ==
  [outcome |-> "throw", status |-> Undefined, data |-> Undefined, error |-> type,
   requests |-> reqs]
PAYMENT_AUTHORIZATION_ERROR == "payment_authorization_error"

\* the options object initiatePayment sends to orders.create
OrderOptions(input, t) ==
  [amount |-> input.amount * 100,
   currency |-> ToUpperCase(input.currency_code),
   receipt |-> "order_" \o ToString(t)]

\* created: the order orders.create resolved to, undefined when it rejected
initiatePayment(opts, input, created) ==
  IF ~IsDefined(input.context) THEN Throw(PAYMENT_AUTHORIZATION_ERROR, <<>>)
  ELSE IF ~IsDefined(created) THEN Throw(PAYMENT_AUTHORIZATION_ERROR, <<"orders.create">>)
  ELSE Return(Undefined,
              Some([id |-> created[1].id, amount |-> created[1].amount,
                    currency |-> created[1].currency, receipt |-> created[1].receipt,
                    status |-> created[1].status, created_at |-> created[1].created_at,
                    key_id |-> opts.key_id]),
              <<"orders.create">>)

\* variant: the status is derived from the fetched order's status
authorizePayment_ByOrderStatus(data, fetched, t) ==
  IF ~IsDefined(data) THEN Throw(PAYMENT_AUTHORIZATION_ERROR, <<>>)
  ELSE IF ~IsDefined(fetched) THEN Throw(PAYMENT_AUTHORIZATION_ERROR, <<"orders.fetch">>)
  ELSE Return(Some(IF fetched[1].status = "paid" THEN "authorized" ELSE "pending"),
              Some(Spread(data, [order_status |-> fetched[1].status,
                                 authorized_at |-> ToISOString(t)])),
              <<"orders.fetch">>)

\* fetched: what orders.fetch(data.id) resolved to, undefined when it rejected
authorizePayment(data, fetched, t) ==
  IF ~IsDefined(data) THEN Throw(PAYMENT_AUTHORIZATION_ERROR, <<>>)
  ELSE IF ~IsDefined(fetched) THEN Throw(PAYMENT_AUTHORIZATION_ERROR, <<"orders.fetch">>)
  ELSE Return(Some("authorized"),
              Some(Spread(data, [order_status |-> fetched[1].status,
                                 authorized_at |-> ToISOString(t)])),
              <<"orders.fetch">>)

\* variant: the input data is not spread into the returned data
capturePayment_NoSpread(data, t) ==
  IF ~IsDefined(data) THEN Throw(PAYMENT_AUTHORIZATION_ERROR, <<>>)
  ELSE Return(Undefined,
              Some([captured_at |-> ToISOString(t), status |-> "captured"]),
              <<>>)

capturePayment(data, t) ==
  IF ~IsDefined(data) THEN Throw(PAYMENT_AUTHORIZATION_ERROR, <<>>)
  ELSE Return(Undefined,
              Some(Spread(data, [captured_at |-> ToISOString(t), status |-> "captured"])),
              <<>>)

\* variant: an attempted order counts as authorized
MapOrderStatus_AttemptedAuthorized(status) ==
  IF status = "created" THEN "pending"
  ELSE IF status = "attempted" THEN "authorized"
  ELSE IF status = "paid" THEN "authorized"
  ELSE "pending"

\* switch (order.status) { ... }
MapOrderStatus(status) ==
  IF status = "created" THEN "pending"
  ELSE IF status = "attempted" THEN "pending"
  ELSE IF status = "paid" THEN "authorized"
  ELSE "pending"

getPaymentStatus(data, fetched) ==
  IF ~IsDefined(data) THEN Return(Some("pending"), Undefined, <<>>)
  ELSE IF ~IsDefined(fetched) THEN Return(Some("pending"), Undefined, <<"orders.fetch">>)
  ELSE Return(Some(MapOrderStatus(fetched[1].status)),
              Some(Spread(data, [order_status |-> fetched[1].status])),
              <<"orders.fetch">>)

updatePayment(data, t) ==
  Return(Undefined, Some(Spread(data, [updated_at |-> ToISOString(t)])), <<>>)

deletePayment(data) == Return(Undefined, data, <<>>)

\* variant: the returned data holds the cancellation stamp only
cancelPayment_NoSpread(data, t) ==
  Return(Undefined, Some([cancelled_at |-> ToISOString(t)]), <<>>)

cancelPayment(data, t) ==
  Return(Undefined, Some(Spread(data, [cancelled_at |-> ToISOString(t)])), <<>>)

refundPayment(data, amount, t) ==
  Return(Undefined,
         Some(Spread(data, [refunded_amount |-> amount, refunded_at |-> ToISOString(t)])),
         <<>>)

\* ------------------------------------------------------------------ state
VARIABLES
  options,        \* this.options_
  orders,         \* the gateway's order store
  gatewayUp,      \* whether the gateway answers requests
  now,            \* the clock read by Date.now() / new Date()
  data,           \* the payment session data handed from one call to the next
  arg,            \* the data the last lifecycle call received
  ret,            \* what the last lifecycle call returned or threw
  requests,       \* gateway requests issued by the last lifecycle call
  lastFetch,      \* what orders.fetch resolved to in the last lifecycle call
  orderId,        \* id of the order the last successful initiatePayment created
  payload,        \* the last webhook payload received
  webhook         \* what getWebhookActionAndData did with it

vars == <<options, orders, gatewayUp, now, data, arg, ret, requests, lastFetch,
          orderId, payload, webhook>>

NotHandled == [outcome |-> "none", raised |-> "none", result |-> NoResult]
NoCall == [op |-> "none", outcome |-> "none", status |-> Undefined, data |-> Undefined,
           error |-> ""]

\* the provider after construction, no lifecycle call made yet
InitProvider ==
  /\ options \in { [key_id |-> "rzp_key", key_secret |-> "rzp_secret", webhook_secret |-> s] :
                     s \in SecretOptions }
  /\ orders = <<>>
  /\ gatewayUp = TRUE
  /\ now = 1
  /\ data = Undefined
  /\ arg = Undefined
  /\ ret = NoCall
  /\ requests = <<>>
  /\ lastFetch = Undefined
  /\ orderId = Undefined
  /\ webhook = NotHandled

Init ==
  /\ InitProvider
  /\ payload = Undefined

\* the provider after construction, with one webhook request delivered to it
WebhookInit ==
  /\ InitProvider
  /\ payload \in { Some(p) : p \in Payloads }

\* bookkeeping common to every lifecycle call
Called(op, input, r, fetched) ==
  /\ now < MaxClock
  /\ now' = now + 1
  /\ arg' = input
  /\ ret' = [op |-> op, outcome |-> r.outcome, status |-> r.status, data |-> r.data,
             error |-> r.error]
  /\ requests' = r.requests
  /\ lastFetch' = fetched
  /\ data' = IF r.outcome = "return" THEN r.data ELSE data

InitiateInputs ==
  { [amount |-> a, currency_code |-> "inr", context |-> c] :
      a \in 1..MaxAmount, c \in {Undefined, Some(EmptyObject)} }

InitiatePayment ==
  \E input \in InitiateInputs :
    LET accepted == gatewayUp /\ IsDefined(input.context) /\ Len(orders) < MaxOrders
        order == CreatedOrder(Len(orders) + 1, OrderOptions(input, now), now)
        r == initiatePayment(options, input, IF accepted THEN Some(order) ELSE Undefined)
    IN  /\ Called("initiatePayment", Undefined, r, Undefined)
        /\ orders' = IF accepted THEN Append(orders, order) ELSE orders
        /\ orderId' = IF r.outcome = "return" THEN Some(order.id) ELSE orderId
        /\ UNCHANGED <<options, gatewayUp, payload, webhook>>

\* the order fetch a handler performs for the data it was given
Fetched(d) == FetchOrder(orders, OptGet(d, "id"), gatewayUp)

AuthorizePayment ==
  /\ IsDefined(orderId)
  /\ Called("authorizePayment", data, authorizePayment(data, Fetched(data), now), Fetched(data))
  /\ UNCHANGED <<options, orders, gatewayUp, orderId, payload, webhook>>

CapturePayment ==
  /\ IsDefined(orderId)
  /\ Called("capturePayment", data, capturePayment(data, now), Undefined)
  /\ UNCHANGED <<options, orders, gatewayUp, orderId, payload, webhook>>

GetPaymentStatus ==
  /\ IsDefined(orderId)
  /\ Called("getPaymentStatus", data, getPaymentStatus(data, Fetched(data)), Fetched(data))
  /\ UNCHANGED <<options, orders, gatewayUp, orderId, payload, webhook>>

UpdatePayment ==
  /\ IsDefined(orderId)
  /\ Called("updatePayment", data, updatePayment(data, now), Undefined)
  /\ UNCHANGED <<options, orders, gatewayUp, orderId, payload, webhook>>

DeletePayment ==
  /\ IsDefined(orderId)
  /\ Called("deletePayment", data, deletePayment(data), Undefined)
  /\ UNCHANGED <<options, orders, gatewayUp, orderId, payload, webhook>>

CancelPayment ==
  /\ IsDefined(orderId)
  /\ Called("cancelPayment", data, cancelPayment(data, now), Undefined)
  /\ UNCHANGED <<options, orders, gatewayUp, orderId, payload, webhook>>

RefundPayment ==
  /\ IsDefined(orderId)
  /\ \E amount \in 1..MaxAmount :
       Called("refundPayment", data, refundPayment(data, amount, now), Undefined)
  /\ UNCHANGED <<options, orders, gatewayUp, orderId, payload, webhook>>

\* the gateway moves an order on: the customer attempts and pays, or the
\* order reaches a status the adapter does not know
NextStatuses(status) ==
  IF status = "created" THEN {"attempted", "expired"}
  ELSE IF status = "attempted" THEN {"paid", "expired"}
  ELSE {}

GatewayAdvance ==
  /\ \E i \in 1..Len(orders) : \E s \in NextStatuses(orders[i].status) :
       orders' = [orders EXCEPT ![i].status = s]
  /\ UNCHANGED <<options, gatewayUp, now, data, arg, ret, requests, lastFetch, orderId,
                 payload, webhook>>

\* the gateway becomes unreachable, or reachable again
GatewayToggle ==
  /\ gatewayUp' = ~gatewayUp
  /\ UNCHANGED <<options, orders, now, data, arg, ret, requests, lastFetch, orderId,
                 payload, webhook>>

\* the handler runs on the delivered webhook request
ReceiveWebhook ==
  /\ IsDefined(payload)
  /\ webhook = NotHandled
  /\ webhook' = getWebhookActionAndData(options, payload[1])
  /\ UNCHANGED <<options, orders, gatewayUp, now, data, arg, ret, requests, lastFetch,
                 orderId, payload>>

Next ==
  \/ InitiatePayment
  \/ AuthorizePayment
  \/ CapturePayment
  \/ GetPaymentStatus
  \/ UpdatePayment
  \/ DeletePayment
  \/ CancelPayment
  \/ RefundPayment
  \/ GatewayAdvance
  \/ GatewayToggle

Spec == Init /\ [][Next]_vars

WebhookNext == ReceiveWebhook
WebhookSpec == WebhookInit /\ [][WebhookNext]_vars

\* ================================================================= claims
Handled == webhook.outcome # "none"
SecretConfigured == TruthyStr(options.webhook_secret)
\* the received header equals the hex HMAC-SHA256 of the raw body under the secret
SignatureMatches ==
  /\ IsDefined(payload[1].headers)
  /\ IsDefined(payload[1].rawData)
  /\ SignatureHeader \in DOMAIN payload[1].headers[1]
  /\ payload[1].headers[1][SignatureHeader]
       = HmacSha256Hex(options.webhook_secret[1],
                       IF payload[1].rawData[1].kind = "string"
                       THEN payload[1].rawData[1].text
                       ELSE payload[1].rawData[1].bytes)
VerificationPassed == ~SecretConfigured \/ SignatureMatches
FailedEmpty == [action |-> "failed", data |-> [session_id |-> <<"">>, amount |-> [numeric |-> 0]]]
EventOfPayload ==
  IF IsDefined(payload[1].data) /\ "event" \in DOMAIN payload[1].data[1]
  THEN payload[1].data[1].event ELSE ""
EntityEvents == {"payment.authorized", "payment.captured", "payment.failed"}

\* C1: with a webhook_secret configured, every webhook whose signature header
\* is not the hex HMAC-SHA256 of the raw body under the secret (an absent
\* header included) yields action "failed", empty session_id and amount 0,
\* whatever its event; "authorized"/"captured" come only with a matching
\* signature.
C1_BadSignatureFails ==
  (Handled /\ SecretConfigured) =>
     /\ ~SignatureMatches => (webhook.outcome = "return" /\ webhook.result = FailedEmpty)
     /\ webhook.result.action \in {"authorized", "captured"} => SignatureMatches

C1_Witness ==
  /\ Handled /\ SecretConfigured
  /\ EventOfPayload = "payment.captured"
  /\ IsDefined(payload[1].headers) /\ IsDefined(payload[1].rawData)
  /\ payload[1].headers[1] = EmptyObject
  /\ webhook.result = FailedEmpty

\* C3: a webhook that passes (or is not subject to) verification gets its
\* action from the event table; any other or missing event name gives
\* "not_supported" with empty session_id and amount 0.
C3_EventTable ==
  (Handled /\ VerificationPassed /\ IsDefined(payload[1].data)) =>
     /\ webhook.outcome = "return"
     /\ EventOfPayload = "payment.authorized" => webhook.result.action = "authorized"
     /\ EventOfPayload = "payment.captured" => webhook.result.action = "captured"
     /\ EventOfPayload = "payment.failed" => webhook.result.action = "failed"
     /\ EventOfPayload \notin EntityEvents =>
          webhook.result = [action |-> "not_supported",
                            data |-> [session_id |-> <<"">>, amount |-> [numeric |-> 0]]]

C3_Witness ==
  /\ Handled /\ SecretConfigured /\ SignatureMatches
  /\ EventOfPayload = "payment.captured"
  /\ webhook.result.action = "captured"

\* the entities of the received webhook, as sets of at most one object
ReceivedPayloadObjs ==
  IF IsDefined(payload[1].data) /\ "payload" \in DOMAIN payload[1].data[1]
  THEN {payload[1].data[1].payload} ELSE {}
ReceivedPaymentEntities ==
  { p.payment.entity : p \in { q \in ReceivedPayloadObjs : "payment" \in DOMAIN q } }
ReceivedOrderEntities ==
  { p.order.entity : p \in { q \in ReceivedPayloadObjs : "order" \in DOMAIN q } }
ReceivedReceipts ==
  { e.receipt : e \in { o \in ReceivedOrderEntities : "receipt" \in DOMAIN o } } \ {""}
ReceivedOrderIds ==
  { e.order_id : e \in { q \in ReceivedPaymentEntities : "order_id" \in DOMAIN q } }
ReceivedAmounts ==
  { e.amount : e \in { q \in ReceivedPaymentEntities : "amount" \in DOMAIN q } }

\* C4: for the three payment events the session_id is the order entity's
\* receipt when present and non-empty, otherwise the payment entity's
\* order_id; the amount is the payment entity's amount unchanged, or 0 when
\* the payment entity or its amount is absent.
C4_SessionAndAmount ==
  (Handled /\ VerificationPassed /\ EventOfPayload \in EntityEvents) =>
     /\ \A r \in ReceivedReceipts : webhook.result.data.session_id = <<r>>
     /\ ReceivedReceipts = {} =>
          /\ \A o \in ReceivedOrderIds : webhook.result.data.session_id = <<o>>
          /\ ReceivedOrderIds = {} => webhook.result.data.session_id = <<>>
     /\ \A a \in ReceivedAmounts : webhook.result.data.amount.numeric = a
     /\ ReceivedAmounts = {} => webhook.result.data.amount.numeric = 0

C4_Witness ==
  /\ Handled /\ VerificationPassed
  /\ EventOfPayload = "payment.authorized"
  /\ ReceivedOrderEntities = { [receipt |-> ""] }
  /\ ReceivedOrderIds = {"order_1"}
  /\ ReceivedAmounts = {100}
  /\ webhook.result.data = [session_id |-> <<"order_1">>, amount |-> [numeric |-> 100]]

\* C7: getWebhookActionAndData never throws; whenever an exception is raised
\* while verifying or mapping (missing data, rawData or headers included) the
\* result is action "failed" with empty session_id and amount 0.
C7_NeverThrows ==
  Handled =>
     /\ webhook.outcome = "return"
     /\ webhook.raised # "none" => webhook.result = FailedEmpty
     /\ ~IsDefined(payload[1].data) => webhook.result = FailedEmpty
     /\ (SecretConfigured /\ (~IsDefined(payload[1].rawData) \/ ~IsDefined(payload[1].headers)))
          => webhook.result = FailedEmpty

C7_Witness ==
  /\ Handled /\ ~SecretConfigured
  /\ ~IsDefined(payload[1].data)
  /\ webhook.raised = "TypeError"
  /\ webhook.outcome = "return" /\ webhook.result = FailedEmpty

\* C9: with no webhook_secret configured the result does not depend on the
\* signature header: the same webhook with any other header set (signature
\* present, absent or wrong) gives the same action, session_id and amount.
C9_HeaderIrrelevantWithoutSecret ==
  (Handled /\ ~SecretConfigured) =>
     /\ webhook.raised # "none" <=> ~IsDefined(payload[1].data)
     /\ \A h \in HeaderSets :
          getWebhookActionAndData(options, [payload[1] EXCEPT !.headers = h]).result
            = webhook.result

C9_Witness ==
  /\ Handled /\ ~SecretConfigured
  /\ payload[1].headers = Some(SignatureHeader :> "zz")
  /\ EventOfPayload = "payment.authorized"
  /\ webhook.result.action = "authorized"

\* C2: getPaymentStatus never throws; it returns "authorized" exactly when the
\* order fetch succeeds with gateway status "paid", and "pending" for
\* "created", "attempted", any other status and a failed fetch.
C2_StatusTable ==
  ret.op = "getPaymentStatus" =>
     /\ ret.outcome = "return"
     /\ ret.status \in {<<"authorized">>, <<"pending">>}
     /\ ret.status = <<"authorized">>
          <=> (IsDefined(lastFetch) /\ lastFetch[1].status = "paid")

C2_Witness ==
  /\ ret.op = "getPaymentStatus"
  /\ IsDefined(lastFetch) /\ lastFetch[1].status = "attempted"
  /\ ret.status = <<"pending">>

\* C5: cancelPayment and deletePayment issue no gateway request and always
\* return: deletePayment returns its input data unchanged, cancelPayment
\* returns it with every field kept and cancelled_at set.
C5_CancelDeleteFrame ==
  /\ ret.op = "deletePayment" =>
       (ret.outcome = "return" /\ requests = <<>> /\ ret.data = arg)
  /\ ret.op = "cancelPayment" =>
       /\ ret.outcome = "return" /\ requests = <<>> /\ IsDefined(ret.data)
       /\ "cancelled_at" \in DOMAIN ret.data[1]
       /\ IsDefined(arg) =>
            /\ DOMAIN ret.data[1] = DOMAIN arg[1] \cup {"cancelled_at"}
            /\ \A k \in DOMAIN arg[1] \ {"cancelled_at"} : ret.data[1][k] = arg[1][k]
       /\ ~IsDefined(arg) => DOMAIN ret.data[1] = {"cancelled_at"}

C5_Witness ==
  /\ ret.op = "cancelPayment" /\ ret.outcome = "return"
  /\ IsDefined(arg) /\ {"id", "authorized_at"} \subseteq DOMAIN arg[1]
  /\ "cancelled_at" \notin DOMAIN arg[1]
  /\ ret.data[1].id = arg[1].id

\* C6: none of initiatePayment, authorizePayment, capturePayment and
\* refundPayment returns successfully without having issued at least one
\* gateway request for that call.
C6_LifecycleCallsReachGateway ==
  (ret.op \in {"initiatePayment", "authorizePayment", "capturePayment", "refundPayment"}
     /\ ret.outcome = "return")
    => Len(requests) >= 1

\* C8: authorizePayment returns status "authorized" exactly when the order
\* fetch succeeds, whatever the fetched status; when the fetch fails it throws
\* PAYMENT_AUTHORIZATION_ERROR and returns no status.
C8_AuthorizedIffFetched ==
  ret.op = "authorizePayment" =>
     /\ (ret.outcome = "return" /\ ret.status = <<"authorized">>) <=> IsDefined(lastFetch)
     /\ ~IsDefined(lastFetch) =>
          (ret.outcome = "throw" /\ ret.error = "payment_authorization_error"
             /\ ret.status = <<>>)

\* authorizePayment reported "authorized" for an order for which
\* getPaymentStatus, on the same data and the same fetched order, reports
\* "pending"
C8_Witness ==
  /\ ret.op = "authorizePayment" /\ ret.outcome = "return"
  /\ ret.status = <<"authorized">>
  /\ lastFetch[1].status = "created"
  /\ getPaymentStatus(arg, lastFetch).status = <<"pending">>

\* C10 as stated: every successful return of the chain carries data whose id
\* is the gateway order id created by initiatePayment.
C10_IdOnEveryReturn ==
  (ret.op # "none" /\ ret.outcome = "return") =>
     (IsDefined(ret.data) /\ "id" \in DOMAIN ret.data[1] /\ <<ret.data[1].id>> = orderId)

\* C10 amended: data.id is never overwritten (session data that has an id has
\* the id created by initiatePayment), and every successful return of a call
\* given data with an id carries that id, except getPaymentStatus with a
\* failed order fetch, which returns status "pending" and no data.
C10_IdKeptUnlessStatusFetchFails ==
  /\ (IsDefined(data) /\ "id" \in DOMAIN data[1]) => <<data[1].id>> = orderId
  /\ (ret.op \notin {"none", "initiatePayment"} /\ ret.outcome = "return"
        /\ IsDefined(arg) /\ "id" \in DOMAIN arg[1]) =>
       IF ret.op = "getPaymentStatus" /\ ~IsDefined(lastFetch)
       THEN ret.status = <<"pending">> /\ ret.data = <<>>
       ELSE IsDefined(ret.data) /\ "id" \in DOMAIN ret.data[1]
              /\ ret.data[1].id = arg[1].id /\ <<ret.data[1].id>> = orderId

C10_Witness ==
  /\ ret.op = "refundPayment" /\ ret.outcome = "return"
  /\ {"authorized_at", "captured_at", "refunded_at"} \subseteq DOMAIN ret.data[1]
  /\ <<ret.data[1].id>> = orderId
====
